---- MODULE Spec2Model ----
(***************************************************************************)
(* Model of RobotController (src/robot-operation/control_subscriber.py):   *)
(* the command sequencer with its worker thread, the directive handler,    *)
(* the gesture handler, the motion executor and shutdown.                  *)
(*                                                                         *)
(* Python values that the code mixes in one slot (None, False, True, an    *)
(* error string) are tuples of strings, so that they stay comparable.      *)
(***************************************************************************)
EXTENDS Integers, Sequences, FiniteSets, TLC

\* ------------------------------------------------------------------ bounds
MaxDirectives == 3   \* directive payloads delivered in one behaviour
MaxGestures == 1     \* gesture payloads delivered in one behaviour
MaxTicks == 2        \* velocity ticks a timed move lasts (duration / 0.05 s)
SleepPolls == 1      \* polls of _interruptible_sleep in the post-stand wake-up

MaxTags == MaxDirectives + MaxGestures
Tags == 1..MaxTags

\* --------------------------------------------------------- python values
PyNone == <<"None">>
PyFalse == <<"False">>
PyTrue == <<"True">>
\* bool(x) of a value that is None, False, True or a non-empty string
Truthy(v) == v # PyNone /\ v # PyFalse

\* ---------------------------------------------------------------- catalog
LIN_SPEED == 42            \* 0.42, in hundredths
SAFE_SPEED == 11           \* 0.11
MOVE_DURATION == 50        \* 5.0 s, in tenths
MIN_MOVE_DURATION == 5     \* 0.5 s
DURATION_STEP == 5         \* 0.5 s
EMERGENCY_BRAKE_PULSES == 3

MacroNames == {"detected", "from0to1", "from1to2", "from2to0", "hi", "normal",
               "heart", "test_gesture"}

CUSTOM_OPERATION_LIST(op) ==
  CASE op = "detected" -> <<"hello">>
    [] op = "from0to1" -> <<"turn_right", "turn_right", "forward_L">>
    [] op = "from1to2" -> <<"turn_left", "turn_left", "turn_left_S", "turn_left_S",
                            "forward_S", "turn_right_S", "turn_right_S">>
    [] op = "from2to0" -> <<"turn_left_S", "turn_left", "turn_left", "forward_S",
                            "turn_right_S", "turn_right", "turn_right">>
    [] op = "hi" -> <<"hello">>
    [] op = "normal" -> <<"stretch">>
    [] op = "heart" -> <<"heart_">>
    [] op = "test_gesture" -> <<"sit", "stand">>
    [] OTHER -> <<>>

GateOpenMacrosNone == {}
GateOpenMacros == {"from1to2", "test_gesture"}
othermove_gesture == {"from2to0", "from0to1"}

MoveOps == {"forward", "backward", "left", "right", "turn_left", "turn_right",
            "turn_left_S", "turn_right_S", "forward_L", "forward_S"}
LinearMoveOps == {"forward", "backward", "left", "right", "forward_L", "forward_S"}

\* the primitives written `_check_sdk_return(...) + (False,)`
TupleOps == {"damp", "balance_stand", "scrape", "hello", "stretch", "dance1",
             "dance2", "heart_"}

SdkName(op) ==
  CASE op = "sit" -> "StandDown"
    [] op = "stand" -> "StandUp"
    [] op = "recovery_stand" -> "RecoveryStand"
    [] op = "damp" -> "Damp"
    [] op = "balance_stand" -> "BalanceStand"
    [] op = "scrape" -> "Scrape"
    [] op = "hello" -> "Hello"
    [] op = "stretch" -> "Stretch"
    [] op = "dance1" -> "Dance1"
    [] op = "dance2" -> "Dance2"
    [] op = "heart_" -> "Heart"
    [] OTHER -> "none"

ControlDirectives == {"gesture_on", "gesture_off", "speaker_on", "speaker_off",
                      "safe_mode_on", "safe_mode_off", "set_move_duration_up",
                      "set_move_duration_down", "get_status"}

GestureClasses == {"heart", "X", "O", "1_thumb-up", "1_thumb-down", "2_thumb-up",
                   "2_thumb-down", "1_victory", "2_victory", "1_OK", "finger-heart",
                   "help!", "test1", "test2"}

GESTURE_ACTION_MAP(cls) ==
  CASE cls \in {"heart", "finger-heart"} -> <<"heart_">>
    [] cls \in {"X", "1_thumb-down", "2_thumb-down", "test1"} -> <<"sit">>
    [] cls \in {"O", "1_thumb-up", "2_thumb-up", "1_victory", "2_victory", "1_OK"}
         -> <<"hello">>
    [] cls = "help!" -> <<"scrape">>
    [] cls = "test2" -> <<"stand">>
    [] OTHER -> <<>>

\* what an SDK call can do: return 0/None, return a non-zero code, raise
SdkOutcomes == {"ok", "code", "exc"}
\* Move and StopMove: the code ignores the return value
MoveOutcomes == {"ok", "exc"}
ErrCode == "3104"
ExcText == <<"sdk_exception">>

_check_sdk_return(outcome, command_name) ==
  IF outcome = "ok" THEN <<TRUE, PyNone>>
  ELSE <<FALSE, <<command_name, "failed_with_code", ErrCode>>>>

\* ------------------------------------------------------------------ state
VARIABLES
  \* controller fields
  pending, seq_running, seq_id, interrupt, interrupt_reason,
  current_sequence, conducted, error_offset, is_sitting,
  gesture_switch, ipc_gesture_sub, saying_switch, say_,
  safe_mode, custom_move_speed, custom_move_duration,
  lock,
  \* worker thread: position and locals
  wpc, current_seq_id, current_sequence_list, opi, stk, ret, exit_kind,
  result, reason,
  \* directive handler thread, gesture handler threads
  dpc, d_payload, d_i, n_dir, gpc, g_class, n_gest,
  \* the thread that runs shutdown()
  spc,
  \* observation (no effect on the program)
  pending_tag, cur_tag, cur_submitted, n_tag, tag_state, pub_log, last_pub,
  final_eo, brakes, ops_after_intr, intr_at,
  pending_src, cur_src, sdk_log, op_sat, react_since_on, shut_running, shut_brakes,
  trace, run_log,
  tts, say_obs, speaking, spoken

ctlVars == <<pending, seq_running, seq_id, interrupt, interrupt_reason,
             current_sequence, conducted, error_offset, is_sitting>>
gateVars == <<gesture_switch, ipc_gesture_sub>>
speechVars == <<saying_switch, say_>>
tuneVars == <<safe_mode, custom_move_speed, custom_move_duration>>
workerVars == <<wpc, current_seq_id, current_sequence_list, opi, stk, ret,
                exit_kind, result, reason>>
dirVars == <<dpc, d_payload, d_i, n_dir>>
gestVars == <<gpc, g_class, n_gest>>
\* observation of one top-level operation: the SDK calls it issued, and the
\* posture it was entered in
sdkVars == <<sdk_log, op_sat>>
\* observation of who submitted what, and of shutdown()
srcVars == <<pending_src, cur_src, react_since_on>>
shutVars == <<spc, shut_running, shut_brakes>>
\* observation of one whole run: nothing where trace is "off"; the posture at
\* its start, its SDK calls with their outcomes and the raising of the signal
\* where it is "calls"; the stop pulses of its brakes as well where it is
\* "pulses"
traceVars == <<trace, run_log>>
\* observation of speech: the outcome of the run's playback attempt, the
\* utterance held in say_ (the directive that wrote it and the submission it
\* came with), the utterance being played, and every attempt made so far
speakObs == <<tts, say_obs, speaking, spoken>>
obsVars == <<pending_tag, cur_tag, cur_submitted, n_tag, tag_state, pub_log,
             last_pub, final_eo, brakes, ops_after_intr, intr_at, sdkVars, srcVars,
             shutVars, traceVars, speakObs>>
vars == <<ctlVars, gateVars, speechVars, tuneVars, lock, workerVars, dirVars,
          gestVars, obsVars>>

\* the threads that can run the gesture callback at the same time
GestureThreads == {1, 2}

NoRet == [ok |-> TRUE, stop |-> PyFalse, err |-> PyNone]
NoPayload == [command |-> <<>>, has_command |-> FALSE, move |-> <<>>,
              move_kind |-> "absent", say |-> "", has_say |-> FALSE]
NoUtterance == [id |-> 0, for |-> 0]
NoPub == [result |-> TRUE, seq |-> <<>>, conducted |-> <<>>, seq_id |-> 0, tag |-> 0]

\* RobotController.__init__
Construct ==
  /\ pending = <<>> /\ seq_running = FALSE /\ seq_id = 0
  /\ interrupt = FALSE /\ interrupt_reason = PyNone
  /\ current_sequence = <<>> /\ conducted = <<>> /\ error_offset = <<>>
  /\ is_sitting = FALSE
  /\ gesture_switch = FALSE /\ ipc_gesture_sub = FALSE
  /\ saying_switch = FALSE /\ say_ = PyNone
  /\ safe_mode = FALSE /\ custom_move_speed = LIN_SPEED
  /\ custom_move_duration = MOVE_DURATION
  /\ lock = "free"
  /\ wpc = "idle" /\ current_seq_id = 0 /\ current_sequence_list = <<>>
  /\ opi = 0 /\ stk = <<>> /\ ret = NoRet /\ exit_kind = "none"
  /\ result = TRUE /\ reason = PyNone
  /\ dpc = "idle" /\ d_payload = NoPayload /\ d_i = 0 /\ n_dir = 0
  /\ gpc = [h \in GestureThreads |-> "idle"]
  /\ g_class = [h \in GestureThreads |-> ""]
  /\ n_gest = 0
  /\ spc = "none" /\ shut_running = FALSE /\ shut_brakes = 0
  /\ pending_src = <<>> /\ cur_src = "none" /\ sdk_log = <<>> /\ op_sat = FALSE
  /\ react_since_on = 0
  /\ pending_tag = <<>> /\ cur_tag = 0 /\ cur_submitted = <<>> /\ n_tag = 0
  /\ tag_state = [t \in Tags |-> "unused"]
  /\ pub_log = <<>>
  /\ last_pub = NoPub /\ final_eo = <<>>
  /\ brakes = 0 /\ ops_after_intr = 0 /\ intr_at = "none"
  /\ run_log = <<>>
  /\ tts = "none" /\ say_obs = NoUtterance /\ speaking = NoUtterance /\ spoken = <<>>

Init == Construct /\ trace = "off"

\* ------------------------------------------------------------ worker loop
NoFrame == [fn |-> "none", op |-> "", pc |-> "", k |-> 0, intr |-> FALSE]
DoOpFrame(op) == [fn |-> "do_op", op |-> op, pc |-> "entry", k |-> 0, intr |-> FALSE]
DoMoveFrame(op) == [fn |-> "do_move", op |-> op, pc |-> "tick", k |-> 0, intr |-> FALSE]
Top == IF stk = <<>> THEN NoFrame ELSE Head(stk)
InOp == wpc = "op" /\ stk # <<>>

\* self.interrupt.is_set(), as the worker polls it
InterruptSetNever == FALSE
InterruptSet == interrupt

\* _start_sequence_unlocked(seq)
StartSequenceUnlockedNoFlag(seq) ==
  /\ seq_id' = seq_id + 1
  /\ current_sequence' = seq
  /\ conducted' = <<>>
  /\ error_offset' = <<>>
  /\ seq_running' = seq_running
StartSequenceUnlocked(seq) ==
  /\ seq_id' = seq_id + 1
  /\ current_sequence' = seq
  /\ conducted' = <<>>
  /\ error_offset' = <<>>
  /\ seq_running' = TRUE

\* what the observation of a run records
TraceCalls == trace # "off"
TracePulses == trace = "pulses"

\* the posture flag, as the observation names it
Posture == IF is_sitting THEN "sitting" ELSE "standing"

\* the first branch of the worker loop: ready to start and something pending
CanStartInverted == seq_running /\ pending # <<>>
CanStart == ~seq_running /\ pending # <<>>

\* _worker_loop, top of the loop, under the lock
W_Poll ==
  /\ wpc = "idle" /\ lock = "free"
  /\ IF CanStart
       THEN /\ pending' = Tail(pending)
            /\ StartSequenceUnlocked(Head(pending))
            /\ wpc' = "started"
            /\ lock' = "free"
            /\ pending_tag' = Tail(pending_tag)
            /\ cur_tag' = Head(pending_tag)
            /\ cur_submitted' = Head(pending)
            /\ tag_state' = [tag_state EXCEPT ![Head(pending_tag)] = "running"]
            /\ brakes' = 0 /\ ops_after_intr' = 0 /\ intr_at' = "none"
            /\ pending_src' = Tail(pending_src) /\ cur_src' = Head(pending_src)
            /\ run_log' = IF TraceCalls THEN <<<<"start", Posture>>>> ELSE run_log
       ELSE /\ IF ~seq_running
                 THEN wpc' = "sleeping" /\ lock' = "worker"   \* time.sleep under the lock
                 ELSE wpc' = "started" /\ lock' = "free"
            /\ UNCHANGED <<pending, seq_id, current_sequence, conducted, error_offset,
                           seq_running, pending_tag, cur_tag, cur_submitted, tag_state,
                           brakes, ops_after_intr, intr_at, pending_src, cur_src,
                           run_log>>
  /\ UNCHANGED <<interrupt, interrupt_reason, is_sitting, gateVars, speechVars, tuneVars,
                 current_seq_id, current_sequence_list, opi, stk, ret, exit_kind,
                 result, reason, dirVars, gestVars, n_tag, pub_log, last_pub, final_eo,
                 sdkVars, react_since_on, shutVars, trace, speakObs>>

\* the idle branch: the sleep ends, `continue`, the lock is released
W_Wake ==
  /\ wpc = "sleeping"
  /\ wpc' = "idle" /\ lock' = "free"
  /\ UNCHANGED <<ctlVars, gateVars, speechVars, tuneVars, current_seq_id,
                 current_sequence_list, opi, stk, ret, exit_kind, result, reason,
                 dirVars, gestVars, obsVars>>

\* `current_seq_id = self.seq_id`
SnapshotIdStale == current_seq_id
SnapshotId == seq_id

\* after the lock is released: the worker's copies, then _execute_sequence begins
W_Snapshot ==
  /\ wpc = "started"
  /\ current_seq_id' = SnapshotId
  /\ current_sequence_list' = current_sequence
  /\ opi' = 1
  /\ wpc' = IF say_ # PyNone /\ saying_switch THEN "speak" ELSE "check"
  /\ UNCHANGED <<ctlVars, gateVars, speechVars, tuneVars, lock, stk, ret, exit_kind,
                 result, reason, dirVars, gestVars, obsVars>>

\* what the synthesis and the playback of one utterance can do: play to the
\* end, end with a non-zero return code, run into TTS_WAIT_TIMEOUT, or raise
\* (the Polly call; the launch of the player)
SpeechOutcomes == {"ok", "failed", "timeout", "synth_exc", "launch_exc"}

\* `except subprocess.TimeoutExpired` is the only handler of the TTS block
SpeechRaisesOnTimeout(o) == o \in {"synth_exc", "launch_exc", "timeout"}
SpeechRaises(o) == o \in {"synth_exc", "launch_exc"}

\* `finally: self.say_ = None`
SpeechFinallyKept == say_
SpeechFinally == PyNone

\* the TTS block is entered: the text is built from self.say_ (a TypeError if
\* it has become None since the test), and synthesis and playback begin
W_Speak ==
  /\ wpc = "speak"
  /\ IF say_ = PyNone
       THEN /\ tts' = "type_error"
            /\ say_' = SpeechFinally /\ say_obs' = NoUtterance
            /\ wpc' = "crashed"
            /\ UNCHANGED <<speaking, spoken>>
       ELSE /\ speaking' = say_obs
            /\ spoken' = Append(spoken, [id |-> say_obs.id, for |-> say_obs.for,
                                         run |-> cur_tag])
            /\ wpc' = "playing"
            /\ UNCHANGED <<tts, say_, say_obs>>
  /\ UNCHANGED <<ctlVars, gateVars, saying_switch, tuneVars, lock, current_seq_id,
                 current_sequence_list, opi, stk, ret, exit_kind, result, reason,
                 dirVars, gestVars, pending_tag, cur_tag, cur_submitted, n_tag,
                 tag_state, pub_log, last_pub, final_eo, brakes, ops_after_intr,
                 intr_at, sdkVars, srcVars, shutVars, traceVars>>

\* synthesis and playback end; the finally clause clears the utterance; an
\* exception other than the timeout leaves _execute_sequence and _worker_loop
W_SpeakEnd ==
  /\ wpc = "playing"
  /\ \E o \in SpeechOutcomes :
       /\ tts' = o
       /\ wpc' = IF SpeechRaises(o) THEN "crashed" ELSE "check"
  /\ say_' = SpeechFinally
  /\ say_obs' = IF SpeechFinally = PyNone THEN NoUtterance ELSE say_obs
  /\ UNCHANGED <<ctlVars, gateVars, saying_switch, tuneVars, lock, current_seq_id,
                 current_sequence_list, opi, stk, ret, exit_kind, result, reason,
                 dirVars, gestVars, pending_tag, cur_tag, cur_submitted, n_tag,
                 tag_state, pub_log, last_pub, final_eo, brakes, ops_after_intr,
                 intr_at, sdkVars, srcVars, shutVars, traceVars, speaking, spoken>>

\* `for op in sequence`: the interruption check before each operation, or the
\* end of the list
W_Check ==
  /\ wpc = "check"
  /\ IF opi > Len(current_sequence_list)
       THEN /\ result' = TRUE /\ reason' = PyNone
            /\ wpc' = "cleanup"
            /\ UNCHANGED <<stk, exit_kind>>
       ELSE IF InterruptSet
         THEN /\ exit_kind' = "interrupted"
              /\ wpc' = "brake"
              /\ UNCHANGED <<stk, result, reason>>
         ELSE /\ stk' = <<DoOpFrame(current_sequence_list[opi])>>
              /\ wpc' = "op"
              /\ UNCHANGED <<exit_kind, result, reason>>
  /\ UNCHANGED <<ctlVars, gateVars, speechVars, tuneVars, lock, current_seq_id,
                 current_sequence_list, opi, ret, dirVars, gestVars, obsVars>>

\* ------------------------------------------------------- motion executor
\* what a step of _do_op / _do_move leaves alone
opFrame == <<pending, seq_running, seq_id, interrupt, interrupt_reason,
             current_sequence, conducted, error_offset, speechVars, tuneVars, lock,
             current_seq_id, current_sequence_list, opi, exit_kind, result, reason,
             dirVars, gestVars, pending_tag, cur_tag, cur_submitted, n_tag, tag_state,
             pub_log, last_pub, final_eo, intr_at, pending_src, cur_src, shutVars,
             trace, speakObs>>

Ret3(ok, stop, err) == [ok |-> ok, stop |-> stop, err |-> err]

\* `return r` of the top frame: to the calling frame, or to _execute_sequence
Return(r) ==
  /\ stk' = Tail(stk)
  /\ ret' = r
  /\ wpc' = IF Len(stk) = 1 THEN "log" ELSE "op"

\* `return self._do_move(...)`: _do_move's value is _do_op's value
ReturnFromMove(r) ==
  /\ stk' = Tail(Tail(stk))
  /\ ret' = r
  /\ wpc' = IF Len(stk) = 2 THEN "log" ELSE "op"

Goto(pc, k) ==
  /\ stk' = <<[Top EXCEPT !.pc = pc, !.k = k]>> \o Tail(stk)
  /\ UNCHANGED <<ret, wpc>>

Call(callee, pc, k) ==
  /\ stk' = <<callee, [Top EXCEPT !.pc = pc, !.k = k]>> \o Tail(stk)
  /\ UNCHANGED <<ret, wpc>>

\* an exception nobody catches leaves _execute_sequence and _worker_loop: the
\* worker thread ends
Uncaught == stk' = <<>> /\ ret' = ret /\ wpc' = "crashed"

\* _do_op: `except Exception as e: return False, False, str(e)`
DoOpExceptMissing == Uncaught
DoOpExcept == Return(Ret3(FALSE, PyFalse, ExcText))

\* _emergency_brake: `try: self.bot.StopMove()  except Exception: pass`
PulseRaisesOnFailure(o) == o = "exc"
PulseRaises(o) == FALSE

\* the outcomes the StopMove pulses of one brake can have
PulseOutcomes == [1..EMERGENCY_BRAKE_PULSES -> MoveOutcomes]

\* _emergency_brake() with n pulses already attempted: the number of pulses
\* attempted in the end, and whether an exception leaves the function
RECURSIVE _emergency_brake(_, _)
_emergency_brake(outs, n) ==
  IF n = EMERGENCY_BRAKE_PULSES THEN [attempts |-> n, raised |-> FALSE]
  ELSE IF PulseRaises(outs[n + 1]) THEN [attempts |-> n + 1, raised |-> TRUE]
  ELSE _emergency_brake(outs, n + 1)

\* the pulses of one brake, as the observation of the run records them
PulseEntries(outs) ==
  [j \in 1..(_emergency_brake(outs, 0).attempts) |-> <<"BrakePulse", outs[j]>>]

\* the ways one call of _emergency_brake() can go: whether an exception
\* leaves it, and what the observation records of it
BrakeRuns ==
  {[raised |-> _emergency_brake(outs, 0).raised,
    entries |-> IF TracePulses THEN PulseEntries(outs) ELSE <<>>] :
     outs \in PulseOutcomes}

\* _do_move: `except Exception as e: self._emergency_brake(); return False, False, str(e)`
\* (an exception leaving the brake would be caught by _do_op, with the same triple)
DoMoveExceptNoBrake ==
  /\ brakes' = brakes
  /\ ReturnFromMove(Ret3(FALSE, PyFalse, ExcText))
DoMoveExcept ==
  /\ brakes' = brakes + 1
  /\ ReturnFromMove(Ret3(FALSE, PyFalse, ExcText))

\* _start_gesture_subscription / _stop_gesture_subscription
start_gesture_subscription == gesture_switch' = TRUE /\ ipc_gesture_sub' = TRUE
stop_gesture_subscription == gesture_switch' = FALSE /\ ipc_gesture_sub' = FALSE

\* `if ok: self.is_sitting = False` of stand and recovery_stand
PostureAfterStandKept(o) == is_sitting
PostureAfterStand(o) == IF o = "ok" THEN FALSE ELSE is_sitting

\* the posture guard of _do_op
NeedsAutoStandNever(op) == FALSE
NeedsAutoStandEvenToStand(op) == is_sitting /\ op \notin {"sit", "stop"}
NeedsAutoStand(op) == is_sitting /\ op \notin {"sit", "stand", "stop"}

\* the SDK call `name` is issued and ends as `o` (observation)
IssuedThen(name, o, more) ==
  /\ sdk_log' = Append(sdk_log, <<name, o>>)
  /\ run_log' = IF TraceCalls THEN Append(run_log, <<name, o>>) \o more ELSE run_log
Issued(name, o) == IssuedThen(name, o, <<>>)

\* `if op == "stop": return False, True, "stopped_by_user"`
StopOutcomeNotRequested == Ret3(FALSE, PyFalse, <<"stopped_by_user">>)
StopOutcome == Ret3(FALSE, PyTrue, <<"stopped_by_user">>)

\* _do_op after the posture guard: the dispatch on the operation name
Body(op) ==
  IF op \in MacroNames
    THEN /\ Call(DoOpFrame(CUSTOM_OPERATION_LIST(op)[1]), "macro", 1)
         /\ UNCHANGED <<is_sitting, brakes, gateVars, sdk_log, run_log>>
  ELSE IF op = "sit"
    THEN \E o \in SdkOutcomes :
           /\ IF o = "exc" THEN DoOpExcept
              ELSE Return(Ret3(_check_sdk_return(o, "StandDown")[1], PyFalse,
                               _check_sdk_return(o, "StandDown")[2]))
           /\ is_sitting' = IF o = "ok" THEN TRUE ELSE is_sitting
           /\ Issued("StandDown", o)
           /\ UNCHANGED <<brakes, gateVars>>
  ELSE IF op \in {"stand", "recovery_stand"}
    THEN \E o \in SdkOutcomes :
           /\ IF o = "exc" THEN DoOpExcept
              ELSE IF o = "ok" THEN Goto("wake_move", 0)
              ELSE Return(Ret3(FALSE, PyFalse, _check_sdk_return(o, SdkName(op))[2]))
           /\ is_sitting' = PostureAfterStand(o)
           /\ Issued(SdkName(op), o)
           /\ UNCHANGED <<brakes, gateVars>>
  ELSE IF op \in MoveOps
    THEN /\ Call(DoMoveFrame(op), "in_move", 0)
         /\ UNCHANGED <<is_sitting, brakes, gateVars, sdk_log, run_log>>
  ELSE IF op \in TupleOps
    THEN \E o \in SdkOutcomes :
           /\ IF o = "exc" THEN DoOpExcept
              \* (ok, reason) + (False,): the reason lands in the stop_requested slot
              ELSE Return(Ret3(_check_sdk_return(o, SdkName(op))[1],
                               _check_sdk_return(o, SdkName(op))[2], PyFalse))
           /\ Issued(SdkName(op), o)
           /\ UNCHANGED <<is_sitting, brakes, gateVars>>
  ELSE IF op = "stop"
    THEN /\ Return(StopOutcome)
         /\ UNCHANGED <<is_sitting, brakes, gateVars, sdk_log, run_log>>
  ELSE /\ Return(Ret3(FALSE, PyFalse, <<"unknown_op", op>>))
       /\ UNCHANGED <<is_sitting, brakes, gateVars, sdk_log, run_log>>

\* _do_op(op) is entered: the posture guard, then the dispatch
W_OpEntry ==
  /\ InOp /\ Top.fn = "do_op" /\ Top.pc = "entry"
  /\ IF NeedsAutoStand(Top.op)
       THEN /\ Call(DoOpFrame("stand"), "after_stand", 0)
            /\ UNCHANGED <<is_sitting, brakes, gateVars, sdk_log, run_log>>
       ELSE Body(Top.op)
  /\ ops_after_intr' = IF Len(stk) = 1 /\ interrupt THEN ops_after_intr + 1
                       ELSE ops_after_intr
  /\ op_sat' = IF Len(stk) = 1 THEN is_sitting ELSE op_sat
  /\ UNCHANGED <<react_since_on, opFrame>>

\* the implicit stand has returned
W_AfterStand ==
  /\ InOp /\ Top.fn = "do_op" /\ Top.pc = "after_stand"
  /\ IF ~ret.ok
       THEN /\ Return(Ret3(FALSE, PyFalse, <<"auto_stand_failed">> \o ret.err))
            /\ UNCHANGED <<is_sitting, brakes, gateVars, sdk_log, run_log>>
       ELSE Body(Top.op)
  /\ UNCHANGED <<ops_after_intr, op_sat, react_since_on, opFrame>>

\* a constituent of a macro has returned
W_MacroNext ==
  /\ InOp /\ Top.fn = "do_op" /\ Top.pc = "macro"
  /\ IF ~ret.ok \/ Truthy(ret.stop)
       THEN Return(ret) /\ UNCHANGED gateVars
       ELSE IF Top.k < Len(CUSTOM_OPERATION_LIST(Top.op))
         THEN /\ Call(DoOpFrame(CUSTOM_OPERATION_LIST(Top.op)[Top.k + 1]), "macro",
                      Top.k + 1)
              /\ UNCHANGED gateVars
         ELSE /\ Return(Ret3(TRUE, PyFalse, PyNone))
              /\ IF Top.op \in GateOpenMacros THEN start_gesture_subscription
                 ELSE IF Top.op \in othermove_gesture THEN stop_gesture_subscription
                 ELSE UNCHANGED gateVars
  /\ react_since_on' = IF Top.op \in GateOpenMacros
                          /\ ~(~ret.ok \/ Truthy(ret.stop))
                          /\ Top.k >= Len(CUSTOM_OPERATION_LIST(Top.op))
                        THEN 0 ELSE react_since_on
  /\ UNCHANGED <<is_sitting, brakes, ops_after_intr, sdkVars, run_log, opFrame>>

\* _wake_up_locomotion: bot.Move(0, 0, 0)
W_WakeMove ==
  /\ InOp /\ Top.fn = "do_op" /\ Top.pc = "wake_move"
  /\ \E o \in MoveOutcomes :
       /\ IF o = "exc" THEN DoOpExcept ELSE Goto("wake_poll", 0)
       /\ Issued("WakeMove", o)
  /\ UNCHANGED <<is_sitting, brakes, gateVars, ops_after_intr, op_sat, react_since_on,
                 opFrame>>

\* _interruptible_sleep(POST_STAND_WAKE_UP_DURATION): one poll of the signal
W_WakePoll ==
  /\ InOp /\ Top.fn = "do_op" /\ Top.pc = "wake_poll"
  /\ IF InterruptSet
       THEN Return(Ret3(FALSE, PyFalse, <<"interrupted_during_wake_up">>))
       ELSE IF Top.k + 1 >= SleepPolls THEN Goto("wake_stop", 0)
       ELSE Goto("wake_poll", Top.k + 1)
  /\ UNCHANGED <<is_sitting, brakes, gateVars, ops_after_intr, sdkVars, run_log,
                 react_since_on, opFrame>>

\* _wake_up_locomotion: bot.StopMove(), then `return ok, False, reason`
W_WakeStop ==
  /\ InOp /\ Top.fn = "do_op" /\ Top.pc = "wake_stop"
  /\ \E o \in MoveOutcomes :
       /\ IF o = "exc" THEN DoOpExcept ELSE Return(Ret3(TRUE, PyFalse, PyNone))
       /\ Issued("WakeStopMove", o)
  /\ UNCHANGED <<is_sitting, brakes, gateVars, ops_after_intr, op_sat, react_since_on,
                 opFrame>>

\* `if self.interrupt.is_set()` at the head of the loop of _do_move
TickInterruptedNever == FALSE
TickInterrupted == InterruptSet

\* _do_move: the loop head reads the interruption signal
W_MoveTick ==
  /\ InOp /\ Top.fn = "do_move" /\ Top.pc = "tick"
  /\ IF TickInterrupted
       THEN /\ stk' = <<[Top EXCEPT !.pc = "stop", !.intr = TRUE]>> \o Tail(stk)
            /\ UNCHANGED <<ret, wpc>>
       ELSE Goto("move", Top.k)
  /\ UNCHANGED <<is_sitting, brakes, gateVars, ops_after_intr, sdkVars, run_log,
                 react_since_on, opFrame>>

\* _do_move: bot.Move(vx, vy, yaw); time.sleep(0.05); the duration test
W_MoveCmd ==
  /\ InOp /\ Top.fn = "do_move" /\ Top.pc = "move"
  /\ \E o \in MoveOutcomes :
       IF o = "exc"
         THEN \E b \in BrakeRuns : DoMoveExcept /\ IssuedThen("Move", o, b.entries)
         ELSE /\ IF Top.k + 1 >= MaxTicks THEN Goto("stop", Top.k + 1)
                 ELSE Goto("tick", Top.k + 1)
              /\ UNCHANGED brakes
              /\ Issued("Move", o)
  /\ UNCHANGED <<is_sitting, gateVars, ops_after_intr, op_sat, react_since_on,
                 opFrame>>

\* _do_move: bot.StopMove() after the loop, then the return
W_MoveStop ==
  /\ InOp /\ Top.fn = "do_move" /\ Top.pc = "stop"
  /\ \E o \in MoveOutcomes :
       IF o = "exc"
         THEN \E b \in BrakeRuns :
                DoMoveExcept /\ IssuedThen("StopMove", o, b.entries)
         ELSE /\ IF Top.intr
                   THEN ReturnFromMove(Ret3(FALSE, PyFalse, <<"interrupted">>))
                   ELSE ReturnFromMove(Ret3(TRUE, PyFalse, PyNone))
              /\ UNCHANGED brakes
              /\ Issued("StopMove", o)
  /\ UNCHANGED <<is_sitting, gateVars, ops_after_intr, op_sat, react_since_on,
                 opFrame>>

\* ------------------------------------------------------- sequence runner
Repeat(x, n) == [j \in 1..n |-> x]
Max(a, b) == IF a >= b THEN a ELSE b

\* `self.error_offset.append(not ok)`
OpFailedEntryAlways == TRUE
OpFailedEntry == ~ret.ok

\* the operation returned: it is logged under the lock, then the outcome decides
W_Log ==
  /\ wpc = "log" /\ lock = "free"
  /\ conducted' = Append(conducted, current_sequence_list[opi])
  /\ error_offset' = Append(error_offset, OpFailedEntry)
  /\ IF Truthy(ret.stop)
       THEN exit_kind' = "stopped_by_user" /\ wpc' = "brake" /\ opi' = opi
       ELSE IF ~ret.ok
         THEN exit_kind' = "op_error" /\ wpc' = "brake" /\ opi' = opi
         ELSE exit_kind' = exit_kind /\ wpc' = "check" /\ opi' = opi + 1
  /\ sdk_log' = <<>> /\ op_sat' = FALSE     \* the observation of this operation ends
  /\ UNCHANGED <<pending, seq_running, seq_id, interrupt, interrupt_reason,
                 current_sequence, is_sitting, gateVars, speechVars, tuneVars, lock,
                 current_seq_id, current_sequence_list, stk, ret, result, reason,
                 dirVars, gestVars, pending_tag, cur_tag, cur_submitted, n_tag,
                 tag_state, pub_log, last_pub, final_eo, brakes, ops_after_intr,
                 intr_at, srcVars, shutVars, traceVars,
                 speakObs>>

\* self._emergency_brake() of _execute_sequence; an exception leaving it would
\* leave _execute_sequence and _worker_loop
W_Brake ==
  /\ wpc = "brake"
  /\ brakes' = brakes + 1
  /\ \E b \in BrakeRuns :
       /\ run_log' = run_log \o b.entries
       /\ wpc' = IF b.raised THEN "crashed" ELSE "pad"
  /\ UNCHANGED <<ctlVars, gateVars, speechVars, tuneVars, lock, current_seq_id,
                 current_sequence_list, opi, stk, ret, exit_kind, result, reason,
                 dirVars, gestVars, pending_tag, cur_tag, cur_submitted, n_tag,
                 tag_state, pub_log, last_pub, final_eo, ops_after_intr, intr_at,
                 sdkVars, srcVars, shutVars, trace, speakObs>>

\* the reason a failed run returns
ExitReason ==
  CASE exit_kind = "interrupted" ->
         IF interrupt_reason # PyNone THEN interrupt_reason ELSE <<"interrupted">>
    [] exit_kind = "stopped_by_user" -> <<"stopped_by_user">>
    [] OTHER -> <<"op_error">> \o ret.err

\* the padding the runner adds before it returns a failure
RunnerPadding(sequence, cond, eo) ==
  eo \o Repeat(TRUE, Max(0, Len(sequence) - Len(cond)))

\* after the brake: the remaining steps are padded under the lock, then
\* `return False, reason`
W_Pad ==
  /\ wpc = "pad" /\ lock = "free"
  /\ error_offset' = RunnerPadding(current_sequence_list, conducted, error_offset)
  /\ result' = FALSE
  /\ reason' = ExitReason
  /\ wpc' = "cleanup"
  /\ UNCHANGED <<pending, seq_running, seq_id, interrupt, interrupt_reason,
                 current_sequence, conducted, is_sitting, gateVars, speechVars,
                 tuneVars, lock, current_seq_id, current_sequence_list, opi, stk, ret,
                 exit_kind, dirVars, gestVars, obsVars>>

\* _finalize_error_offset(sequence, conducted, error_offset, result_ok)
_finalize_error_offset(sequence, cond, eo, result_ok) ==
  IF result_ok THEN Repeat(FALSE, Len(sequence))
  ELSE eo \o Repeat(TRUE, Max(0, Len(sequence) - Len(cond)))

\* _publish_result: the payload sent to MQTT_RESULT_TOPIC
ResultPayloadSwapped(res, sequence, cond) ==
  [result |-> res, seq |-> cond, conducted |-> sequence]
ResultPayload(res, sequence, cond) ==
  [result |-> res, seq |-> sequence, conducted |-> cond]

\* the guard of the cleanup
CleanupMatches == seq_id = current_seq_id

\* cleanup, first half: the lock is taken, the result is published under it
W_Publish ==
  /\ wpc = "cleanup" /\ lock = "free"
  /\ IF CleanupMatches
       THEN /\ final_eo' = _finalize_error_offset(current_sequence, conducted,
                                                  error_offset, result)
            /\ last_pub' = [result |-> ResultPayload(result, current_sequence, conducted).result,
                            seq |-> ResultPayload(result, current_sequence, conducted).seq,
                            conducted |-> ResultPayload(result, current_sequence, conducted).conducted,
                            seq_id |-> current_seq_id, tag |-> cur_tag]
            /\ pub_log' = Append(pub_log, [seq_id |-> current_seq_id, tag |-> cur_tag])
            /\ wpc' = "reset" /\ lock' = "worker"
       ELSE /\ wpc' = "idle" /\ lock' = "free"
            /\ UNCHANGED <<final_eo, last_pub, pub_log>>
  /\ UNCHANGED <<ctlVars, gateVars, speechVars, tuneVars, current_seq_id,
                 current_sequence_list, opi, stk, ret, exit_kind, result, reason,
                 dirVars, gestVars, pending_tag, cur_tag, cur_submitted, n_tag,
                 tag_state, brakes, ops_after_intr, intr_at, sdkVars, run_log, srcVars,
                 shutVars, trace, speakObs>>

\* cleanup, second half: the run's state is reset and the lock released.
\* The worker's locals and the per-run observations are dead from here on and
\* are cleared with it, so that states differing only in dead values coincide.
W_Reset ==
  /\ wpc = "reset"
  /\ seq_running' = FALSE
  /\ current_sequence' = <<>>
  /\ conducted' = <<>>
  /\ error_offset' = <<>>
  /\ interrupt' = FALSE
  /\ interrupt_reason' = PyNone
  /\ wpc' = "idle" /\ lock' = "free"
  /\ current_sequence_list' = <<>> /\ opi' = 0 /\ stk' = <<>> /\ ret' = NoRet
  /\ exit_kind' = "none" /\ result' = TRUE /\ reason' = PyNone
  /\ tag_state' = IF cur_tag \in Tags
                    THEN [tag_state EXCEPT ![cur_tag] = "done"]
                    ELSE tag_state
  /\ cur_tag' = 0 /\ cur_submitted' = <<>>
  /\ final_eo' = <<>> /\ brakes' = 0 /\ ops_after_intr' = 0 /\ intr_at' = "none"
  /\ last_pub' = [NoPub EXCEPT !.seq_id = last_pub.seq_id, !.result = last_pub.result]
  /\ cur_src' = "none" /\ run_log' = <<>>
  /\ tts' = "none" /\ speaking' = NoUtterance
  /\ UNCHANGED <<pending, seq_id, is_sitting, gateVars, speechVars, tuneVars,
                 current_seq_id, dirVars, gestVars, pending_tag, n_tag, pub_log,
                 pending_src, sdkVars, react_since_on, shutVars, trace, say_obs,
                 spoken>>

\* ------------------------------------------------------ directive handler
Payload(has_command, command, move_kind, move, has_say, say) ==
  [has_command |-> has_command, command |-> command, move_kind |-> move_kind,
   move |-> move, has_say |-> has_say, say |-> say]
MovePayload(seq) == Payload(FALSE, <<>>, "list", seq, FALSE, "")
CommandPayload(cmds) == Payload(TRUE, cmds, "absent", <<>>, FALSE, "")

\* min(5.0, d + 0.5) and max(0.5, d - 0.5), in tenths
DurationDownUnclamped(d) == d - DURATION_STEP
DurationDown(d) ==
  IF d - DURATION_STEP < MIN_MOVE_DURATION THEN MIN_MOVE_DURATION ELSE d - DURATION_STEP
DurationUp(d) ==
  IF d + DURATION_STEP > MOVE_DURATION THEN MOVE_DURATION ELSE d + DURATION_STEP

\* the control directives whose branch is two assignments; another thread can
\* run between the two
TwoStatementCommands == {"speaker_off", "safe_mode_on", "safe_mode_off"}
FirstStatement(c, cmd) ==
  CASE cmd = "speaker_off" -> [c EXCEPT !.sw = FALSE]
    [] cmd = "safe_mode_on" -> [c EXCEPT !.safe = TRUE]
    [] cmd = "safe_mode_off" -> [c EXCEPT !.speed = LIN_SPEED]
    [] OTHER -> c
SecondStatement(c, cmd) ==
  CASE cmd = "speaker_off" -> [c EXCEPT !.say = PyNone]
    [] cmd = "safe_mode_on" -> [c EXCEPT !.speed = SAFE_SPEED]
    [] cmd = "safe_mode_off" -> [c EXCEPT !.safe = FALSE]
    [] OTHER -> c

\* one control directive of the `command` list applied to the switches and
\* tuning parameters c = [gs, sub, sw, say, safe, speed, dur]
ApplyCommand(c, cmd) ==
  CASE cmd = "gesture_on" -> [c EXCEPT !.gs = TRUE, !.sub = TRUE]
    [] cmd = "gesture_off" -> [c EXCEPT !.gs = FALSE, !.sub = FALSE]
    [] cmd = "speaker_on" -> [c EXCEPT !.sw = TRUE]
    [] cmd \in TwoStatementCommands -> SecondStatement(FirstStatement(c, cmd), cmd)
    [] cmd = "set_move_duration_up" -> [c EXCEPT !.dur = DurationUp(c.dur)]
    [] cmd = "set_move_duration_down" -> [c EXCEPT !.dur = DurationDown(c.dur)]
    [] OTHER -> c

\* the loop over the `command` list, from its i-th element on, up to the
\* point where a two-assignment directive is half applied (`at` is its index)
\* or to the end of the list (`at` is 0)
RECURSIVE RunCommands(_, _, _)
RunCommands(c, cmds, i) ==
  IF i > Len(cmds) THEN [c |-> c, at |-> 0]
  ELSE IF cmds[i] \in TwoStatementCommands
    THEN [c |-> FirstStatement(c, cmds[i]), at |-> i]
  ELSE RunCommands(ApplyCommand(c, cmds[i]), cmds, i + 1)

\* `if "say" in payload and self.saying_switch`, for a non-blank string
ApplySay(c, p) ==
  IF p.has_say /\ c.sw /\ p.say # "" THEN [c EXCEPT !.say = <<"say", p.say>>] ELSE c

\* _parse_payload_to_sequence: <<>> stands for None (both are falsy)
_parse_payload_to_sequence(p) ==
  IF p.move_kind # "absent" THEN (IF p.move_kind = "list" THEN p.move ELSE <<>>)
  ELSE IF p.has_command THEN p.command
  ELSE <<>>

Switches ==
  [gs |-> gesture_switch, sub |-> ipc_gesture_sub, sw |-> saying_switch, say |-> say_,
   safe |-> safe_mode, speed |-> custom_move_speed, dur |-> custom_move_duration]

\* where the worker is when the interruption signal is raised (observation)
WorkerPhase ==
  IF wpc = "op" /\ Top.fn = "do_move" /\ Top.pc \in {"tick", "move"} THEN "move"
  ELSE IF wpc \in {"started", "speak", "playing", "check", "op", "log"} THEN "run"
  ELSE "late"

\* the handler has run the `command` loop as far as r says: the switches and
\* tuning parameters are written, and when the loop is over, `say` as well
HandlerWrites(r, p, ordinal) ==
  LET c == IF r.at = 0 THEN ApplySay(r.c, p) ELSE r.c
  IN /\ gesture_switch' = c.gs /\ ipc_gesture_sub' = c.sub
     /\ saying_switch' = c.sw /\ say_' = c.say
     /\ safe_mode' = c.safe /\ custom_move_speed' = c.speed
     /\ custom_move_duration' = c.dur
     /\ say_obs' = IF c.say = PyNone THEN NoUtterance
                    ELSE IF ~(r.at = 0 /\ p.has_say /\ c.sw /\ p.say # "") THEN say_obs
                    ELSE [id |-> ordinal,
                          for |-> IF _parse_payload_to_sequence(p) # <<>>
                                    THEN n_tag + 1 ELSE 0]
     /\ dpc' = IF r.at = 0 THEN "parse" ELSE "command"
     /\ d_i' = r.at

\* _handle_main_payload, first part: the control directives and `say`
DirectiveReceive(p) ==
  /\ dpc = "idle" /\ n_dir < MaxDirectives
  /\ n_dir' = n_dir + 1
  /\ d_payload' = p
  /\ HandlerWrites(IF p.has_command THEN RunCommands(Switches, p.command, 1)
                   ELSE [c |-> Switches, at |-> 0], p, n_dir + 1)
  /\ react_since_on' = IF p.has_command
                          /\ \E j \in 1..Len(p.command) : p.command[j] = "gesture_on"
                        THEN 0 ELSE react_since_on
  /\ UNCHANGED <<ctlVars, lock, workerVars, gestVars, pending_tag, cur_tag,
                 cur_submitted, n_tag, tag_state, pub_log, last_pub, final_eo, brakes,
                 ops_after_intr, intr_at, sdkVars, run_log, pending_src, cur_src,
                 shutVars, trace, tts, speaking, spoken>>

\* _handle_main_payload: the second assignment of a half-applied directive,
\* and the loop goes on
D_Command ==
  /\ dpc = "command"
  /\ HandlerWrites(RunCommands(SecondStatement(Switches, d_payload.command[d_i]),
                               d_payload.command, d_i + 1), d_payload, n_dir)
  /\ UNCHANGED <<ctlVars, lock, workerVars, d_payload, n_dir, gestVars, pending_tag,
                 cur_tag, cur_submitted, n_tag, tag_state, pub_log, last_pub, final_eo,
                 brakes, ops_after_intr, intr_at, sdkVars, run_log, srcVars, shutVars,
                 trace, tts, speaking, spoken>>

\* `self.pending.clear(); self.pending.append(x)`
AppendOnly(q, x) == Append(q, x)
ClearAndAppend(q, x) == <<x>>

\* the entry of the run's observation that marks the raising of the signal
SignalRaised == <<"interrupt", "set">>

\* the locked block of _handle_main_payload: latest wins, and a running
\* sequence is interrupted
Enqueue(seq) ==
  /\ pending' = ClearAndAppend(pending, seq)
  /\ IF seq_running /\ ~interrupt
       THEN /\ interrupt_reason' = <<"interrupted_by_new_command">>
            /\ interrupt' = TRUE
            /\ intr_at' = WorkerPhase
            /\ run_log' = IF TraceCalls THEN Append(run_log, SignalRaised) ELSE run_log
       ELSE UNCHANGED <<interrupt, interrupt_reason, intr_at, run_log>>

\* what the locked block of _handle_main_payload leaves alone: the state of
\* the run in flight
RunLogCleared ==
  /\ conducted' = <<>>
  /\ UNCHANGED <<seq_running, seq_id, current_sequence, error_offset, is_sitting>>
RunUntouched ==
  UNCHANGED <<seq_running, seq_id, current_sequence, conducted, error_offset,
              is_sitting>>

\* _handle_main_payload, second part: the sequence is parsed and queued
D_Enqueue ==
  /\ dpc = "parse"
  /\ LET seq == _parse_payload_to_sequence(d_payload)
     IN IF seq = <<>>
          THEN UNCHANGED <<pending, interrupt, interrupt_reason, intr_at, pending_tag,
                           n_tag, tag_state, pending_src, run_log>>
          ELSE /\ lock = "free"
               /\ Enqueue(seq)
               /\ n_tag' = n_tag + 1
               /\ pending_tag' = ClearAndAppend(pending_tag, n_tag + 1)
               /\ pending_src' = ClearAndAppend(pending_src, "directive")
               /\ tag_state' = [t \in Tags |->
                                  IF t = n_tag + 1 THEN "pending"
                                  ELSE IF tag_state[t] = "pending"
                                          /\ \A j \in 1..Len(pending_tag') :
                                                pending_tag'[j] # t
                                    THEN "replaced"
                                  ELSE tag_state[t]]
  /\ dpc' = "idle"
  /\ d_payload' = NoPayload
  /\ RunUntouched
  /\ UNCHANGED <<d_i, gateVars, speechVars, tuneVars, lock, workerVars, n_dir,
                 gestVars, cur_tag, cur_submitted, pub_log, last_pub, final_eo, brakes,
                 ops_after_intr, sdkVars, cur_src, react_since_on, shutVars, trace,
                 speakObs>>

\* -------------------------------------------------------- gesture handler
\* the busy test of the first locked block
GestureBusyRunningOnly == seq_running
GestureBusy == seq_running \/ pending # <<>>

\* _handle_gesture_payload on thread h: the gate test and the locked busy test;
\* at most `limit` gesture payloads are delivered
GestureCheck(h, cls, limit) ==
  /\ gpc[h] = "idle" /\ n_gest < limit
  /\ ipc_gesture_sub           \* a payload arrives on the open subscription
  /\ n_gest' = n_gest + 1
  /\ IF ~gesture_switch
       THEN UNCHANGED <<gpc, g_class, lock>>
       ELSE /\ lock = "free"
            /\ IF GestureBusy
                 THEN /\ gpc' = [gpc EXCEPT ![h] = "busy"]
                      /\ lock' = "gesture"
                      /\ UNCHANGED g_class
                 ELSE /\ gpc' = [gpc EXCEPT ![h] = "lookup"]
                      /\ g_class' = [g_class EXCEPT ![h] = cls]
                      /\ UNCHANGED lock
  /\ UNCHANGED <<ctlVars, gateVars, speechVars, tuneVars, workerVars, dirVars,
                 obsVars>>

\* "Robot is busy, ignoring gesture command": the return releases the lock
G_Busy(h) ==
  /\ gpc[h] = "busy"
  /\ gpc' = [gpc EXCEPT ![h] = "idle"]
  /\ lock' = "free"
  /\ UNCHANGED <<ctlVars, gateVars, speechVars, tuneVars, workerVars, dirVars,
                 g_class, n_gest, obsVars>>

\* the class is looked up; a mapped class closes the gate
G_Lookup(h) ==
  /\ gpc[h] = "lookup"
  /\ IF g_class[h] \in GestureClasses
       THEN /\ stop_gesture_subscription
            /\ gpc' = [gpc EXCEPT ![h] = "append"]
            /\ UNCHANGED g_class
       ELSE /\ gpc' = [gpc EXCEPT ![h] = "idle"]
            /\ g_class' = [g_class EXCEPT ![h] = ""]
            /\ UNCHANGED gateVars
  /\ UNCHANGED <<ctlVars, speechVars, tuneVars, lock, workerVars, dirVars, n_gest,
                 obsVars>>

\* the second locked block: the reaction is appended to the pending queue
G_Append(h) ==
  /\ gpc[h] = "append" /\ lock = "free"
  /\ say_' = IF saying_switch THEN <<"say", g_class[h]>> ELSE say_
  /\ say_obs' = IF saying_switch THEN [id |-> MaxDirectives + n_tag + 1, for |-> n_tag + 1]
                 ELSE say_obs
  /\ pending' = Append(pending, GESTURE_ACTION_MAP(g_class[h]))
  /\ n_tag' = n_tag + 1
  /\ pending_tag' = Append(pending_tag, n_tag + 1)
  /\ pending_src' = Append(pending_src, "gesture")
  /\ react_since_on' = react_since_on + 1
  /\ tag_state' = [tag_state EXCEPT ![n_tag + 1] = "pending"]
  /\ gpc' = [gpc EXCEPT ![h] = "idle"]
  /\ g_class' = [g_class EXCEPT ![h] = ""]
  /\ UNCHANGED <<seq_running, seq_id, interrupt, interrupt_reason, current_sequence,
                 conducted, error_offset, is_sitting, gateVars, saying_switch,
                 tuneVars, lock, workerVars, dirVars, n_gest, cur_tag, cur_submitted,
                 pub_log, last_pub, final_eo, brakes, ops_after_intr, intr_at, sdkVars,
                 run_log, cur_src, shutVars, trace, tts, speaking, spoken>>

\* --------------------------------------------------------------- shutdown
\* shutdown(): _stop_gesture_subscription()
S_CloseGate ==
  /\ spc = "none"
  /\ stop_gesture_subscription
  /\ spc' = "signal"
  /\ UNCHANGED <<ctlVars, speechVars, tuneVars, lock, workerVars, dirVars, gestVars,
                 pending_tag, cur_tag, cur_submitted, n_tag, tag_state, pub_log,
                 last_pub, final_eo, brakes, ops_after_intr, intr_at, sdkVars, run_log,
                 srcVars, shut_running, shut_brakes, trace, speakObs>>

\* `if self.seq_running` of shutdown()
ShutdownSignalsAlways == TRUE
ShutdownSignals == seq_running

\* the locked block: a running sequence is interrupted with reason "shutdown"
S_Signal ==
  /\ spc = "signal" /\ lock = "free"
  /\ IF ShutdownSignals
       THEN interrupt_reason' = <<"shutdown">> /\ interrupt' = TRUE
       ELSE UNCHANGED <<interrupt, interrupt_reason>>
  /\ shut_running' = seq_running
  /\ spc' = "grace"
  /\ UNCHANGED <<pending, seq_running, seq_id, current_sequence, conducted,
                 error_offset, is_sitting, gateVars, speechVars, tuneVars, lock,
                 workerVars, dirVars, gestVars, pending_tag, cur_tag, cur_submitted,
                 n_tag, tag_state, pub_log, last_pub, final_eo, brakes, ops_after_intr,
                 intr_at, sdkVars, run_log, srcVars, shut_brakes, trace,
                 speakObs>>

\* time.sleep(0.3), then _emergency_brake() with its failures swallowed
S_Brake ==
  /\ spc = "grace"
  /\ shut_brakes' = shut_brakes + 1
  /\ spc' = "done"
  /\ UNCHANGED <<ctlVars, gateVars, speechVars, tuneVars, lock, workerVars, dirVars,
                 gestVars, pending_tag, cur_tag, cur_submitted, n_tag, tag_state,
                 pub_log, last_pub, final_eo, brakes, ops_after_intr, intr_at, sdkVars,
                 run_log, srcVars, shut_running, trace, speakObs>>

\* ------------------------------------------------------------ environment
CoreSequences == {<<"forward">>, <<"sit", "hello">>, <<"stop", "forward">>, <<"hi">>}
CorePayloads == {MovePayload(s) : s \in CoreSequences}
                  \cup {CommandPayload(<<"gesture_on">>)}
CoreGestures == {"O", "nomap"}

D_Receive == \E p \in CorePayloads : DirectiveReceive(p)
\* gesture payloads handled one at a time, on one callback thread
G_Check == \E cls \in CoreGestures : GestureCheck(1, cls, MaxGestures)
G_Busy1 == G_Busy(1)
G_Lookup1 == G_Lookup(1)
G_Append1 == G_Append(1)

Worker ==
  \/ W_Poll \/ W_Wake \/ W_Snapshot \/ W_Check
  \/ W_OpEntry \/ W_AfterStand \/ W_MacroNext
  \/ W_WakeMove \/ W_WakePoll \/ W_WakeStop
  \/ W_MoveTick \/ W_MoveCmd \/ W_MoveStop
  \/ W_Log \/ W_Brake \/ W_Pad \/ W_Publish \/ W_Reset

Next ==
  \/ D_Receive \/ D_Enqueue
  \/ G_Check \/ G_Busy1 \/ G_Lookup1 \/ G_Append1
  \/ Worker

Spec == Init /\ [][Next]_vars

\* The same program under a smaller environment, with the scheduling the
\* liveness claims assume: the worker thread runs again and again (every SDK
\* call returns, every timed loop ends).
LivePayloads == {MovePayload(<<"forward">>), MovePayload(<<"sit", "hi">>)}
D_ReceiveLive == \E p \in LivePayloads : DirectiveReceive(p)

LiveNext == D_ReceiveLive \/ D_Enqueue \/ Worker

LiveSpec == Init /\ [][LiveNext]_vars /\ WF_vars(Worker)

\* The same program under a wider environment: gesture payloads handled on
\* two callback threads at once, a directive whose macro opens the gate, and a
\* payload whose `move` is not a list but which carries a `command`.
BadMovePayload(cmds) == Payload(TRUE, cmds, "bad", <<>>, FALSE, "")
WidePayloads == {MovePayload(<<"test_gesture">>), MovePayload(<<"forward">>),
                 BadMovePayload(<<"gesture_on">>)}
WideGestures == {"X"}

D_ReceiveWide == \E p \in WidePayloads : DirectiveReceive(p)
G_CheckWide ==
  \E h \in GestureThreads, cls \in WideGestures : GestureCheck(h, cls, MaxGestures + 1)
G_BusyWide == \E h \in GestureThreads : G_Busy(h)
G_LookupWide == \E h \in GestureThreads : G_Lookup(h)
G_AppendWide == \E h \in GestureThreads : G_Append(h)

WideNext ==
  \/ D_ReceiveWide \/ D_Enqueue
  \/ G_CheckWide \/ G_BusyWide \/ G_LookupWide \/ G_AppendWide
  \/ Worker

WideSpec == Init /\ [][WideNext]_vars

\* The program with shutdown() called at any moment, while directives whose
\* sequences move, sit and open the gate arrive.
ShutPayloads == {MovePayload(<<"forward">>), MovePayload(<<"test_gesture">>)}
D_ReceiveShut == \E p \in ShutPayloads : DirectiveReceive(p)
Shutdown == S_CloseGate \/ S_Signal \/ S_Brake

ShutNext == D_ReceiveShut \/ D_Enqueue \/ Worker \/ Shutdown

ShutSpec == Init /\ [][ShutNext]_vars

\* The end-to-end scenarios: directives only, every run observed in run_log.
SitStandForward == <<"sit", "stand", "forward">>
ScenarioSequences == {SitStandForward, <<"forward">>, <<"stop_move">>,
                      <<"test_gesture">>, <<"sit", "from0to1">>,
                      <<"sit", "stop", "forward">>, <<"forward", "stop", "sit">>,
                      <<"hi">>}
ScenarioPayloads == {MovePayload(q) : q \in ScenarioSequences}
D_ReceiveScenario == \E p \in ScenarioPayloads : DirectiveReceive(p)

ScenarioInit == Construct /\ trace = "calls"
ScenarioNext == D_ReceiveScenario \/ D_Enqueue \/ Worker

ScenarioSpec == ScenarioInit /\ [][ScenarioNext]_vars

\* The directive-only program with the stop pulses of every brake observed.
BrakeInit == Construct /\ trace = "pulses"
BrakeNext == D_ReceiveLive \/ D_Enqueue \/ Worker

BrakeSpec == BrakeInit /\ [][BrakeNext]_vars

\* The program with the speaker: directives that switch it on and off and that
\* carry an utterance with their sequence, and the TTS block of the runner.
SpeakerOnHi == Payload(TRUE, <<"speaker_on">>, "list", <<"hi">>, TRUE, "hello")
SaySit == Payload(FALSE, <<>>, "list", <<"sit">>, TRUE, "sitting down")
SpeechPayloads == {SpeakerOnHi, SaySit, MovePayload(<<"forward">>),
                   CommandPayload(<<"speaker_off">>)}
D_ReceiveSpeech == \E p \in SpeechPayloads : DirectiveReceive(p)
Speech == W_Speak \/ W_SpeakEnd

SpeechNext == D_ReceiveSpeech \/ D_Command \/ D_Enqueue \/ Worker \/ Speech

SpeechSpec == Init /\ [][SpeechNext]_vars

\* The program with the tuning directives: safe mode switched on and off and
\* the move duration stepped up and down, while sequences with linear moves run.
SafeOnSitHi == Payload(TRUE, <<"safe_mode_on">>, "list", <<"sit", "hi">>, FALSE, "")
SafeOffForward == Payload(TRUE, <<"safe_mode_off">>, "list", <<"forward">>, FALSE, "")
DurationDown5 == CommandPayload(Repeat("set_move_duration_down", 5))
DurationDown1 == CommandPayload(<<"set_move_duration_down">>)
DurationUp1 == CommandPayload(<<"set_move_duration_up">>)
TunePayloads == {SafeOnSitHi, SafeOffForward, DurationDown5, DurationDown1, DurationUp1}
D_ReceiveTune == \E p \in TunePayloads : DirectiveReceive(p)

TuneNext == D_ReceiveTune \/ D_Command \/ D_Enqueue \/ Worker

TuneSpec == Init /\ [][TuneNext]_vars

\* The program with every writer present: directives (a sequence that sits,
\* stands, opens the gate and moves), gesture payloads on one callback thread,
\* the worker, and shutdown() called at any moment.
AllPayloads == {MovePayload(<<"test_gesture", "forward">>)}
D_ReceiveAll == \E p \in AllPayloads : DirectiveReceive(p)
AllGestures == {"O"}
G_CheckAll == \E cls \in AllGestures : GestureCheck(1, cls, MaxGestures)

AllNext ==
  \/ D_ReceiveAll \/ D_Enqueue
  \/ G_CheckAll \/ G_Busy1 \/ G_Lookup1 \/ G_Append1
  \/ Worker \/ Shutdown

AllSpec == Init /\ [][AllNext]_vars

\* _do_op as a function of the operation name and the posture: the worker has
\* just called _do_op(op) for the only operation of the first sequence, in
\* either posture, with the interruption signal raised by shutdown() or not;
\* the motion executor runs until the call returns. The worker thread is
\* scheduled again and again and every SDK call returns (bot.SetTimeout).
Primitives == {"sit", "stand", "recovery_stand", "stop"} \cup MoveOps \cup TupleOps
OpNames == MacroNames \cup Primitives \cup {"stop_move"}

DoOpInit ==
  \E op \in OpNames, sitting \in BOOLEAN, signalled \in BOOLEAN :
    /\ pending = <<>> /\ seq_running = TRUE /\ seq_id = 1
    /\ interrupt = signalled
    /\ interrupt_reason = IF signalled THEN <<"shutdown">> ELSE PyNone
    /\ current_sequence = <<op>> /\ conducted = <<>> /\ error_offset = <<>>
    /\ is_sitting = sitting
    /\ gesture_switch = FALSE /\ ipc_gesture_sub = FALSE
    /\ saying_switch = FALSE /\ say_ = PyNone
    /\ safe_mode = FALSE /\ custom_move_speed = LIN_SPEED
    /\ custom_move_duration = MOVE_DURATION
    /\ lock = "free"
    /\ wpc = "op" /\ current_seq_id = 1 /\ current_sequence_list = <<op>>
    /\ opi = 1 /\ stk = <<DoOpFrame(op)>> /\ ret = NoRet /\ exit_kind = "none"
    /\ result = TRUE /\ reason = PyNone
    /\ dpc = "idle" /\ d_payload = NoPayload /\ d_i = 0 /\ n_dir = 1
    /\ gpc = [h \in GestureThreads |-> "idle"]
    /\ g_class = [h \in GestureThreads |-> ""]
    /\ n_gest = 0
    /\ spc = IF signalled THEN "grace" ELSE "none"
    /\ shut_running = signalled /\ shut_brakes = 0
    /\ pending_src = <<>> /\ cur_src = "directive" /\ sdk_log = <<>> /\ op_sat = FALSE
    /\ react_since_on = 0
    /\ pending_tag = <<>> /\ cur_tag = 1 /\ cur_submitted = <<op>> /\ n_tag = 1
    /\ tag_state = [t \in Tags |-> IF t = 1 THEN "running" ELSE "unused"]
    /\ pub_log = <<>>
    /\ last_pub = NoPub /\ final_eo = <<>>
    /\ brakes = 0 /\ ops_after_intr = 0 /\ intr_at = IF signalled THEN "run" ELSE "none"
    /\ run_log = <<>> /\ trace = "off"
    /\ tts = "none" /\ say_obs = NoUtterance /\ speaking = NoUtterance /\ spoken = <<>>

Executor ==
  \/ W_OpEntry \/ W_AfterStand \/ W_MacroNext
  \/ W_WakeMove \/ W_WakePoll \/ W_WakeStop
  \/ W_MoveTick \/ W_MoveCmd \/ W_MoveStop

DoOpSpec == DoOpInit /\ [][Executor]_vars /\ WF_vars(Executor)

\* ----------------------------------------------------------------- claims
Failed == wpc = "cleanup" /\ ~result

\* C1: when a directive with a sequence arrives while the run is inside a timed
\* move, the runner returns (False, "interrupted_by_new_command") and the
\* published result is false.
C1_InterruptedByNewCommand ==
  /\ (wpc = "cleanup" /\ intr_at = "move") =>
        (~result /\ reason = <<"interrupted_by_new_command">>)
  /\ (wpc = "reset" /\ intr_at = "move") => ~last_pub.result

\* C2: once the interruption signal is set, the runner dispatches at most one
\* further top-level operation of the running sequence before it returns.
C2_AtMostOneOpAfterInterrupt == ops_after_intr <= 1

\* a run that dispatched the operation whose check had passed, and nothing more
C2_Witness ==
  /\ wpc = "cleanup" /\ ops_after_intr = 1 /\ ~result
  /\ Len(conducted) < Len(current_sequence_list)

\* C3: under a fair worker every pending sequence is eventually started or
\* replaced; so a sequence submitted during a run starts after the cleanup.
C3_PendingEventuallyStarts ==
  \A t \in Tags : (tag_state[t] = "pending") ~> (tag_state[t] # "pending")

\* the interrupted run is being cleaned up while its successor waits
C3_Witness ==
  /\ wpc = "reset" /\ interrupt
  /\ interrupt_reason = <<"interrupted_by_new_command">>
  /\ pending # <<>> /\ ~last_pub.result

\* C4: a directive's sequence replaces whatever was pending: afterwards the queue
\* holds exactly that sequence, and a replaced sequence is never started.
C4_Coalescing ==
  [][/\ (dpc = "parse" /\ dpc' = "idle"
          /\ _parse_payload_to_sequence(d_payload) # <<>>) =>
            /\ pending' = <<_parse_payload_to_sequence(d_payload)>>
            /\ \A t \in Tags : tag_state[t] = "pending" => tag_state'[t] = "replaced"
     /\ \A t \in Tags : tag_state[t] = "replaced" => tag_state'[t] = "replaced"]_vars

\* two directives before any start: the first is replaced, one entry is pending
C4_Witness ==
  /\ seq_id = 0 /\ Len(pending) = 1
  /\ \E t \in Tags : tag_state[t] = "replaced"

\* C5: the pending queue never holds more than one sequence.
C5_PendingAtMostOne == Len(pending) <= 1

\* C6: a run that returns a failure has invoked the emergency brake exactly once.
C6_ExactlyOneBrake == Failed => brakes = 1

\* C7: the finalized error log has one entry per operation of the sequence, and
\* none marked failed when the run succeeded.
C7_ResultComplete ==
  wpc = "reset" =>
    /\ Len(final_eo) = Len(current_sequence)
    /\ last_pub.result => \A j \in 1..Len(final_eo) : ~final_eo[j]

\* C8: an operation failure ends only the current sequence, with a brake and a
\* failure result: a run that returns success logged no failed operation, a
\* failed run has braked and publishes false, the worker thread stays alive,
\* and whenever it is idle the running flag and the interruption signal are
\* clear.
C8_FailureIsLocal ==
  /\ wpc # "crashed"
  /\ (wpc = "cleanup" /\ result) => \A j \in 1..Len(error_offset) : ~error_offset[j]
  /\ (wpc = "cleanup" /\ ~result) => brakes >= 1
  /\ (wpc = "reset" /\ ~result) => ~last_pub.result
  /\ wpc \in {"idle", "sleeping"} =>
        /\ ~seq_running /\ ~interrupt /\ interrupt_reason = PyNone
        /\ current_sequence = <<>> /\ stk = <<>>

\* the only directive so far failed on an operation (nothing could interrupt
\* it: the last published result is false), and the worker has started the
\* next pending sequence
C8_Witness ==
  /\ n_dir = 1 /\ tag_state[1] = "done" /\ ~last_pub.result
  /\ seq_id = 2 /\ wpc = "check" /\ seq_running

\* C9: every started sequence is published exactly once, with its submitted
\* sequence and its conducted list; a sequence that never started is not
\* published; the results come in increasing sequence-id order.
C9_OneResultPerRun ==
  /\ \A t \in Tags :
        Cardinality({j \in 1..Len(pub_log) : pub_log[j].tag = t})
          = (IF tag_state[t] = "done" \/ (cur_tag = t /\ wpc = "reset")
               THEN 1 ELSE 0)
  /\ \A j \in 1..Len(pub_log) : pub_log[j].seq_id = j
  /\ wpc = "reset" =>
        /\ last_pub.seq = cur_submitted
        /\ last_pub.conducted = conducted
        /\ last_pub.result = result

\* two runs published, a replaced sequence among the submissions
C9_Witness ==
  /\ Len(pub_log) = 2 /\ wpc = "reset"
  /\ \E t \in Tags : tag_state[t] = "replaced"

\* C10: a run starts only from idle with the queue non-empty and nothing
\* running, pops exactly the head, and only after every earlier run was
\* published and its state reset.
C10_StartOnlyWhenIdle ==
  [][seq_id' # seq_id =>
       /\ ~seq_running /\ pending # <<>> /\ lock = "free"
       /\ pending' = Tail(pending) /\ current_sequence' = Head(pending)
       /\ seq_id' = seq_id + 1 /\ seq_running'
       /\ current_sequence = <<>> /\ conducted = <<>> /\ error_offset = <<>>
       /\ Len(pub_log) = seq_id
       /\ \A t \in Tags : tag_state[t] # "running"]_vars

\* a second run has started with another sequence still pending
C10_Witness == seq_id = 2 /\ wpc = "started" /\ pending # <<>>

\* the SDK calls of a complete implicit stand: StandUp, then the wake-up
StandCalls == {"StandUp", "WakeMove", "WakeStopMove"}
StandSucceeded ==
  /\ Len(sdk_log) >= 3
  /\ sdk_log[1] = <<"StandUp", "ok">>
  /\ sdk_log[2] = <<"WakeMove", "ok">>
  /\ sdk_log[3] = <<"WakeStopMove", "ok">>
SatOp ==
  /\ wpc = "log" /\ op_sat
  /\ current_sequence_list[opi] \notin {"sit", "stand", "stop"}

\* C11: an operation other than sit, stand, stop that is entered sitting issues
\* StandUp before any SDK call of its own, and standing is the posture once the
\* stand has succeeded; when the implicit stand fails no SDK call of the
\* operation is issued, the operation fails with auto_stand_failed, and the
\* run returns op_error with auto_stand_failed in it.
C11_AutoStand ==
  /\ SatOp =>
        /\ sdk_log # <<>> /\ sdk_log[1][1] = "StandUp"
        /\ IF StandSucceeded
             THEN (\A j \in 4..Len(sdk_log) : sdk_log[j][1] # "StandDown")
                    => ~is_sitting
             ELSE /\ \A j \in 1..Len(sdk_log) : sdk_log[j][1] \in StandCalls
                  /\ ~ret.ok /\ ret.err[1] = "auto_stand_failed"
  /\ (wpc = "cleanup" /\ ret.err[1] = "auto_stand_failed") =>
        /\ ~result /\ Len(reason) >= 2
        /\ reason[1] = "op_error" /\ reason[2] = "auto_stand_failed"

\* hello was entered sitting: the stand and the wake-up came first, then Hello
C11_Witness ==
  /\ SatOp /\ StandSucceeded /\ ret.ok
  /\ Len(sdk_log) = 4 /\ sdk_log[4] = <<"Hello", "ok">>

\* a `command` list made of control directives only
ControlOnly(seq) ==
  seq # <<>> /\ \A j \in 1..Len(seq) : seq[j] \in ControlDirectives

\* C12: a payload without `move` whose `command` holds only control directives
\* leaves the pending queue and the interruption signal as they were, and no
\* sequence is ever started from it.
C12_ControlOnlyNotQueued ==
  [][/\ (dpc = "parse" /\ dpc' = "idle" /\ d_payload.move_kind = "absent"
          /\ d_payload.has_command /\ ControlOnly(d_payload.command)) =>
            /\ pending' = pending
            /\ interrupt' = interrupt /\ interrupt_reason' = interrupt_reason
     /\ ~ControlOnly(current_sequence')]_vars

\* a payload the handler rejects: no recognized key, or a `move` that is not a
\* list of strings
Malformed(p) ==
  \/ p.move_kind = "bad"
  \/ p.move_kind = "absent" /\ ~p.has_command /\ ~p.has_say

\* C13: handling a malformed payload changes no controller state, whatever
\* `command` or `say` it carries.
C13_MalformedNoChange ==
  [][(\/ dpc = "idle" /\ dpc' = "parse" /\ Malformed(d_payload')
      \/ dpc = "parse" /\ dpc' = "idle" /\ Malformed(d_payload)) =>
        UNCHANGED <<pending, interrupt, interrupt_reason, say_, gesture_switch,
                    saying_switch, safe_mode, custom_move_speed,
                    custom_move_duration>>]_vars

\* C14: a gesture payload handled (gate open) while a sequence is pending or
\* running is dropped: the handler goes no further than the busy test, and the
\* pending queue, running flag, gate flag, pending utterance and interruption
\* signal are the same before and after.
C14_BusyDrop ==
  [][(\/ /\ n_gest' # n_gest /\ gesture_switch
          /\ (seq_running \/ pending # <<>>)
      \/ \E h \in GestureThreads : gpc[h] = "busy" /\ gpc'[h] # "busy") =>
        /\ \A h \in GestureThreads :
              gpc'[h] \in {"lookup", "append"} => gpc'[h] = gpc[h]
        /\ UNCHANGED <<pending, seq_running, gesture_switch, say_, interrupt,
                       interrupt_reason>>]_vars

\* a gesture payload is being dropped while a sequence runs
C14_Witness ==
  \E h \in GestureThreads : gpc[h] = "busy" /\ seq_running /\ gesture_switch

\* C15: between two consecutive enablings of the gate at most one reaction
\* sequence is enqueued, also when gesture payloads are handled concurrently
\* (react_since_on counts the reactions appended since the gate was last
\* enabled).
C15_OneReactionPerEnabling == react_since_on <= 1

\* C16: a gesture reaction is appended only when no sequence is running and the
\* pending queue is empty, under every interleaving.
C16_GestureAppendOnlyIdle ==
  [][\A h \in GestureThreads :
       (gpc[h] = "append" /\ gpc'[h] = "idle") => (~seq_running /\ pending = <<>>)]_vars

\* C17: once a reaction has been accepted the gate is enabled again only by a
\* later directive: by a gesture_on command, or by the gate-opening macro of a
\* directive's sequence that runs after the reaction left the queue; never
\* while the reaction is pending or running.
C17_GateReopenedOnlyByDirective ==
  [][(~gesture_switch /\ gesture_switch') =>
       \/ /\ dpc = "idle" /\ dpc' = "parse"
          /\ \E j \in 1..Len(d_payload'.command) : d_payload'.command[j] = "gesture_on"
       \/ /\ wpc = "op" /\ cur_src = "directive"
          /\ \A j \in 1..Len(pending_src) : pending_src[j] # "gesture"]_vars

\* C18: while a sequence is pending or running the gate flag is disabled.
C18_GateClosedWhileBusy == (seq_running \/ pending # <<>>) => ~gesture_switch

\* positions of the worker that are blocking calls: the idle sleep, speech
\* playback, SDK calls and timed loops, the brake pulses
BlockingPcs == {"sleeping", "speak", "op", "brake"}

\* C20: whoever holds the lock is not inside a blocking call.
C20_NoBlockingUnderLock == lock = "worker" => wpc \notin BlockingPcs

\* C19: shutdown() returns with the gate disabled; it sets the interruption
\* signal with reason "shutdown" exactly when a sequence is running at that
\* moment; and it then issues one emergency brake in either case.
C19_Shutdown ==
  [][/\ (spc = "signal" /\ spc' = "grace") =>
          ((interrupt' /\ interrupt_reason' = <<"shutdown">>) <=> seq_running)
     /\ (spc = "grace" /\ spc' = "done") =>
          (shut_brakes' = 1 /\ ~gesture_switch' /\ ~ipc_gesture_sub')]_vars

\* the names of the SDK calls of the observed run, in the order issued
RunCalls == [j \in 1..(Len(run_log) - 1) |-> run_log[j + 1][1]]
\* the observed run started standing, was never interrupted, and every SDK
\* call of it returned success
CleanRun ==
  /\ run_log # <<>> /\ run_log[1] = <<"start", "standing">>
  /\ ~interrupt
  /\ \A j \in 2..Len(run_log) : run_log[j][2] = "ok"
\* StandDown for sit; StandUp and the wake-up for stand; the ticks and the
\* stop of forward
SitStandForwardCalls ==
  <<"StandDown", "StandUp", "WakeMove", "WakeStopMove">>
    \o [j \in 1..MaxTicks |-> "Move"] \o <<"StopMove">>

\* C21: a run of [sit, stand, forward] that starts standing, is not
\* interrupted and whose SDK calls all succeed is published once, with
\* result true and conducted [sit, stand, forward]; its SDK calls were those
\* of sit, then stand, then forward, and the posture at the end is standing.
C21_EndToEnd ==
  (wpc = "reset" /\ cur_submitted = SitStandForward /\ CleanRun) =>
    /\ last_pub.result /\ last_pub.conducted = SitStandForward
    /\ last_pub.seq = SitStandForward
    /\ Cardinality({j \in 1..Len(pub_log) : pub_log[j].tag = cur_tag}) = 1
    /\ RunCalls = SitStandForwardCalls
    /\ ~is_sitting

\* such a run has just been published
C21_Witness ==
  /\ wpc = "reset" /\ cur_submitted = SitStandForward /\ CleanRun
  /\ last_pub.result /\ Len(run_log) = Len(SitStandForwardCalls) + 1

\* the observed run was never interrupted and every SDK call of it succeeded
Undisturbed ==
  /\ ~interrupt
  /\ \A j \in 2..Len(run_log) : run_log[j][2] = "ok"

\* C22: the sequence [stop_move] (what the relay sends for the action
\* stop_move), started after the interrupted run was cleaned up, runs to
\* completion: when it is not itself interrupted and the SDK succeeds, its
\* published result is true.
C22_StopMoveCompletes ==
  (wpc = "reset" /\ cur_submitted = <<"stop_move">> /\ Undisturbed) =>
    (last_pub.result /\ last_pub.conducted = <<"stop_move">>)

\* the error detail of a call that returned a non-zero code: its name, the code
CodeDetail(name) == <<name, "failed_with_code", ErrCode>>
\* seq ends with suf
EndsWith(seq, suf) ==
  /\ Len(seq) >= Len(suf)
  /\ \A j \in 1..Len(suf) : seq[Len(seq) - Len(suf) + j] = suf[j]

\* C23: an operation whose last SDK call returned a non-zero code reports
\* ok = false, stop_requested = false and a detail naming the call and the
\* code; a run ends with stopped_by_user only when the operation it ended on
\* is `stop`.
C23_SdkCodeIsOpError ==
  /\ (wpc = "log" /\ sdk_log # <<>> /\ sdk_log[Len(sdk_log)][2] = "code") =>
        /\ ~ret.ok /\ ret.stop = PyFalse
        /\ EndsWith(ret.err, CodeDetail(sdk_log[Len(sdk_log)][1]))
  /\ (wpc = "cleanup" /\ reason = <<"stopped_by_user">>) =>
        current_sequence_list[opi] = "stop"

\* the run is ending on a `stop` operation that asked for the stop
EndedOnStop ==
  /\ exit_kind = "stopped_by_user"
  /\ opi \in 1..Len(current_sequence_list) /\ current_sequence_list[opi] = "stop"

\* C24: `stop` returns (false, true, "stopped_by_user") from either posture,
\* with no SDK call (so no implicit stand) and the posture as it was; the run
\* then brakes once and returns (false, "stopped_by_user"), with the
\* operations up to `stop` conducted and none after it dispatched.
C24_StopEndsRun ==
  /\ (wpc = "log" /\ current_sequence_list[opi] = "stop") =>
        /\ ret = [ok |-> FALSE, stop |-> PyTrue, err |-> <<"stopped_by_user">>]
        /\ sdk_log = <<>> /\ is_sitting = op_sat
  /\ EndedOnStop =>
        /\ wpc \in {"brake", "pad", "cleanup", "reset"} /\ stk = <<>>
        /\ conducted = SubSeq(current_sequence_list, 1, opi)
        /\ wpc \in {"pad", "cleanup", "reset"} => brakes = 1
        /\ wpc \in {"cleanup", "reset"} =>
              (~result /\ reason = <<"stopped_by_user">>)
        /\ wpc = "reset" => ~last_pub.result

\* [sit, stop, forward] ended on its `stop`, the robot sitting after the sit
C24_Witness ==
  /\ wpc = "cleanup" /\ EndedOnStop /\ is_sitting
  /\ current_sequence_list = <<"sit", "stop", "forward">>
  /\ conducted = <<"sit", "stop">>

\* the worker is inside _do_move; this step leaves it
InMove == InOp /\ Top.fn = "do_move"
MoveReturns == InMove /\ Len(stk') < Len(stk)
\* the SDK call issued by this step, if any
CallIssued == sdk_log' # sdk_log /\ sdk_log' # <<>>
LastCall == sdk_log'[Len(sdk_log')]

\* C25: the step on which _do_move returns attempts a stop after the last
\* velocity command: it is the StopMove that follows the loop, or, when the
\* velocity command raised, the emergency brake of the handler (StopMove
\* raising is followed by that brake too).  A tick that finds the signal set
\* ends the loop; from then on no velocity command is issued, and the move
\* returns (false, false, "interrupted") once its stop command has returned.
C25_MoveEndsWithStop ==
  [][/\ MoveReturns =>
          /\ CallIssued
          /\ \/ LastCall = <<"StopMove", "ok">> /\ brakes' = brakes
             \/ LastCall = <<"StopMove", "exc">> /\ brakes' = brakes + 1
             \/ LastCall = <<"Move", "exc">> /\ brakes' = brakes + 1
          /\ LastCall[2] = "exc" => ret' = [ok |-> FALSE, stop |-> PyFalse, err |-> ExcText]
          /\ (LastCall[2] = "ok" /\ Top.intr) =>
                ret' = [ok |-> FALSE, stop |-> PyFalse, err |-> <<"interrupted">>]
          /\ (LastCall[2] = "ok" /\ ~Top.intr) =>
                ret' = [ok |-> TRUE, stop |-> PyFalse, err |-> PyNone]
     /\ (InMove /\ Top.pc = "tick" /\ interrupt /\ stk' # stk) =>
          (stk'[1].intr /\ stk'[1].pc = "stop" /\ ~CallIssued)
     /\ (InMove /\ Top.intr /\ CallIssued) => LastCall[1] = "StopMove"]_vars

\* an interrupted move has returned: its last SDK call is the stop
C25_Witness ==
  /\ wpc = "log" /\ interrupt /\ ret.err = <<"interrupted">>
  /\ sdk_log # <<>> /\ sdk_log[Len(sdk_log)] = <<"StopMove", "ok">>
  /\ \E j \in 1..Len(sdk_log) : sdk_log[j] = <<"Move", "ok">>

\* the SDK calls that command a velocity: the ticks of a timed move and the
\* Move(0, 0, 0) of the wake-up
VelocityCalls == {"Move", "WakeMove"}
\* the positions of the observed run at which the signal was raised
SignalAt == {j \in 1..Len(run_log) : run_log[j] = SignalRaised}
VelocityAfterSignal ==
  {j \in 1..Len(run_log) :
     run_log[j][1] \in VelocityCalls /\ \E i \in SignalAt : i < j}

\* C26: after the signal is raised the running sequence issues at most one
\* more velocity command, whatever is left of it: ticks, macro constituents,
\* an implicit stand, further operations.
C26_OneVelocityAfterSignal == Cardinality(VelocityAfterSignal) <= 1

\* [sit, from0to1] was interrupted and issued one velocity command afterwards
C26_Witness ==
  /\ wpc = "cleanup" /\ cur_submitted = <<"sit", "from0to1">>
  /\ Cardinality(VelocityAfterSignal) = 1
  /\ Len(conducted) = 2

\* C27: the signal is raised only while a sequence is running, by the locked
\* block of a directive that carries a sequence or by that of shutdown(); it
\* is cleared only by the worker's cleanup, in the critical section that also
\* clears the running flag and the reason.  So the signal (or a reason) is
\* never set without a running sequence, and a run starts with both clear.
C27_SignalOnlyWhileRunning ==
  [][/\ (~interrupt /\ interrupt') =>
          /\ seq_running /\ seq_running' /\ lock = "free"
          /\ \/ /\ dpc = "parse" /\ dpc' = "idle"
                /\ _parse_payload_to_sequence(d_payload) # <<>>
                /\ interrupt_reason' = <<"interrupted_by_new_command">>
             \/ /\ spc = "signal" /\ spc' = "grace"
                /\ interrupt_reason' = <<"shutdown">>
     /\ (interrupt /\ ~interrupt') =>
          /\ wpc = "reset" /\ lock = "worker" /\ lock' = "free"
          /\ seq_running /\ ~seq_running' /\ interrupt_reason' = PyNone
     /\ (~seq_running /\ seq_running') =>
          /\ ~interrupt /\ interrupt_reason = PyNone
          /\ ~interrupt' /\ interrupt_reason' = PyNone
     /\ interrupt => seq_running
     /\ interrupt' => seq_running'
     /\ (interrupt_reason' # PyNone) <=> interrupt']_vars

\* a run interrupted by shutdown() is about to be cleaned up
C27_Witness ==
  /\ wpc = "reset" /\ interrupt /\ interrupt_reason = <<"shutdown">>
  /\ seq_running /\ pending # <<>>

\* the shared state the claim lists
SharedState == <<pending, interrupt, interrupt_reason, is_sitting, safe_mode,
                 custom_move_speed, custom_move_duration, gesture_switch,
                 saying_switch, say_>>

\* the steps taken inside a `with self.lock` block: the worker's loop head,
\* logging, padding and cleanup; the queueing block of the directive
\* handler; the busy test and the append of the gesture handler; the
\* signalling block of shutdown()
LockedStep ==
  \/ lock = "free" /\ wpc \in {"idle", "log", "pad", "cleanup"} /\ wpc' # wpc
  \/ lock = "worker" /\ wpc \in {"sleeping", "reset"} /\ wpc' # wpc
  \/ lock = "free" /\ dpc = "parse" /\ dpc' = "idle"
  \/ \E h \in GestureThreads :
        \/ lock = "free" /\ gpc[h] = "append" /\ gpc'[h] = "idle"
        \/ lock = "gesture" /\ gpc[h] = "busy" /\ gpc'[h] = "idle"
  \/ lock = "free" /\ spc = "signal" /\ spc' = "grace"

\* C28: every step that writes the pending queue, the signal or its reason,
\* the posture, a tuning parameter, the gate switch, the speech switch or the
\* pending utterance is taken inside a `with self.lock` block.
C28_WritesUnderLock == [][SharedState' # SharedState => LockedStep]_vars

\* the worker is in a macro and a constituent has just returned
MacroStep == InOp /\ Top.fn = "do_op" /\ Top.pc = "macro" /\ stk' # stk
\* the worker enters the body of a macro (after the posture guard)
MacroEntered ==
  /\ InOp /\ Top.fn = "do_op" /\ Top.pc \in {"entry", "after_stand"}
  /\ Top.op \in MacroNames
  /\ Len(stk') = Len(stk) + 1 /\ stk'[2].pc = "macro"
ConstituentFailed == ~ret.ok \/ Truthy(ret.stop)
SdkNames(log) == [j \in 1..Len(log) |-> log[j][1]]

\* C29: a macro dispatches its constituents in catalog order; when one fails
\* or asks for the stop the macro returns that outcome at once and leaves the
\* gate as it is; when the last one has succeeded the macro returns success,
\* and from1to2 / test_gesture enable the gate, from2to0 / from0to1 disable
\* it, every other macro leaves it unchanged.  So a successful test_gesture
\* has issued the calls of sit, then those of stand.
C29_MacroExecution ==
  [][/\ MacroEntered =>
          /\ stk'[1].op = CUSTOM_OPERATION_LIST(Top.op)[1] /\ stk'[2].k = 1
          /\ UNCHANGED gateVars
     /\ (MacroStep /\ ConstituentFailed) =>
          (stk' = Tail(stk) /\ ret' = ret /\ UNCHANGED gateVars)
     /\ (MacroStep /\ ~ConstituentFailed
           /\ Top.k < Len(CUSTOM_OPERATION_LIST(Top.op))) =>
          /\ Len(stk') = Len(stk) + 1
          /\ stk'[1].op = CUSTOM_OPERATION_LIST(Top.op)[Top.k + 1]
          /\ stk'[2].k = Top.k + 1 /\ stk'[2].pc = "macro"
          /\ UNCHANGED gateVars
     /\ (MacroStep /\ ~ConstituentFailed
           /\ Top.k >= Len(CUSTOM_OPERATION_LIST(Top.op))) =>
          /\ stk' = Tail(stk)
          /\ ret' = [ok |-> TRUE, stop |-> PyFalse, err |-> PyNone]
          /\ gesture_switch' =
                IF Top.op \in {"from1to2", "test_gesture"} THEN TRUE
                ELSE IF Top.op \in {"from2to0", "from0to1"} THEN FALSE
                ELSE gesture_switch
     /\ (MacroStep /\ Top.op = "test_gesture" /\ stk' = <<>> /\ ret'.ok) =>
          SdkNames(sdk_log') =
            (IF op_sat THEN <<"StandUp", "WakeMove", "WakeStopMove">> ELSE <<>>)
              \o <<"StandDown", "StandUp", "WakeMove", "WakeStopMove">>]_vars

\* test_gesture has completed and enabled the gate
C29_Witness ==
  /\ wpc = "log" /\ current_sequence_list[opi] = "test_gesture"
  /\ ret.ok /\ gesture_switch /\ ipc_gesture_sub /\ ~is_sitting

\* the stop pulses of the brakes of the observed run
BrakePulses == {j \in 1..Len(run_log) : run_log[j][1] = "BrakePulse"}

\* C30: every emergency brake attempts exactly three stop commands, whatever
\* each of them does, and no failure of a pulse reaches the caller.
C30_BrakePulses ==
  /\ Cardinality(BrakePulses) = 3 * brakes
  /\ wpc # "crashed"

\* a brake whose first pulse raised has sent the other two and returned
C30_Witness ==
  /\ wpc = "pad" /\ brakes = 1 /\ Cardinality(BrakePulses) = 3
  /\ \E j \in BrakePulses :
        /\ j + 2 <= Len(run_log)
        /\ run_log[j] = <<"BrakePulse", "exc">>
        /\ run_log[j + 1] = <<"BrakePulse", "ok">>
        /\ run_log[j + 2] = <<"BrakePulse", "ok">>

\* C31: an utterance is attempted at most once, every attempt is made at the
\* start of a run, before its first operation, at most one per run, and when an
\* attempt ends (played, playback failure, timeout, or an error) say_ is None.
AttemptedOnce ==
  \A i, j \in 1..Len(spoken) : spoken[i].id = spoken[j].id => i = j
OnePerRun ==
  \A i, j \in 1..Len(spoken) : spoken[i].run = spoken[j].run => i = j
BeforeFirstOp ==
  wpc \in {"speak", "playing"} =>
    conducted = <<>> /\ error_offset = <<>> /\ opi = 1 /\ stk = <<>> /\ sdk_log = <<>>
C31_UtteranceOnce ==
  /\ [](AttemptedOnce /\ OnePerRun /\ BeforeFirstOp)
  /\ [][wpc = "playing" /\ wpc' # "playing" => say_' = PyNone]_vars
\* a second run has made its own attempt after the first run's attempt was
\* cleared, and that attempt has ended without the worker dying
C31_Witness ==
  /\ Len(spoken) = 2 /\ spoken[1].id # spoken[2].id
  /\ wpc = "check" /\ tts \in {"failed", "timeout"} /\ say_ = PyNone

\* C32: a playback timeout leaves the runner where a completed playback leaves
\* it (at the loop over the operations, with the run's state untouched), the
\* worker lives on, and the run's result is TRUE exactly when every operation
\* of the sequence was conducted without a failure.
RunState == <<ctlVars, current_seq_id, current_sequence_list, opi, stk, ret,
              exit_kind, result, reason>>
AllConducted ==
  /\ conducted = current_sequence_list
  /\ \A j \in 1..Len(error_offset) : ~error_offset[j]
C32_TimeoutProceeds ==
  /\ [][tts = "none" /\ tts' = "timeout" =>
          wpc = "playing" /\ wpc' = "check" /\ UNCHANGED RunState]_vars
  /\ [](tts = "timeout" => wpc # "crashed")
  /\ [](tts = "timeout" /\ wpc = "cleanup" => (result <=> AllConducted))
\* a run whose playback timed out has completed its sequence [hi]
C32_Witness ==
  /\ tts = "timeout" /\ wpc = "cleanup" /\ result
  /\ conducted = <<"hi">> /\ spoken # <<>>

\* C33: when the synthesis call or the launch of the player raises, the worker
\* thread lives on (so that the run can end with a published result and
\* seq_running can return to FALSE).
C33_SpeechFailureNonFatal ==
  tts \in {"synth_exc", "launch_exc"} => wpc # "crashed"

\* C34: the utterance a run plays is the one that came in the payload of the
\* run's own sequence.
C34_UtteranceWithItsSequence ==
  wpc = "playing" /\ speaking.for # 0 => speaking.for = cur_tag

\* C35: while a run is in flight, conducted is a prefix of the running sequence,
\* the error log has one entry per conducted operation until the padding is
\* added, only the last conducted operation can be marked failed, and both
\* logs are empty when the run starts.
Padded == exit_kind # "none" /\ wpc \in {"cleanup", "reset"}
C35_LogsFollowTheRun ==
  seq_running =>
    /\ Len(conducted) <= Len(current_sequence)
    /\ conducted = SubSeq(current_sequence, 1, Len(conducted))
    /\ ~Padded => Len(error_offset) = Len(conducted)
    /\ \A j \in 1..Len(error_offset) : j < Len(conducted) => ~error_offset[j]
    /\ wpc = "started" => conducted = <<>> /\ error_offset = <<>>
\* [sit, hello]: hello was entered sitting, stood up implicitly and failed; the
\* logs hold the two top-level names and mark the second
C35_Witness ==
  /\ seq_running /\ wpc = "brake" /\ current_sequence = <<"sit", "hello">>
  /\ conducted = <<"sit", "hello">> /\ error_offset = <<FALSE, TRUE>>

\* C36: no step of the directive handler or of the gesture handler changes the
\* state of the run in flight: current sequence, conducted log, error log,
\* sequence id, running flag, posture.
HandlerStep ==
  dpc' # dpc \/ n_dir' # n_dir \/ gpc' # gpc \/ n_gest' # n_gest
InFlight == <<current_sequence, conducted, error_offset, seq_id, seq_running,
              is_sitting>>
C36_HandlersLeaveTheRun == [][HandlerStep => UNCHANGED InFlight]_vars
\* a directive has interrupted a run that has conducted an operation and sits
C36_Witness ==
  /\ seq_running /\ interrupt /\ pending # <<>> /\ dpc = "idle"
  /\ conducted # <<>> /\ is_sitting

\* C37: the move duration is always within [0.5, 5.0]; a directive of n
\* set_move_duration_down (up) commands lowers (raises) it by n * 0.5, or to
\* the bound where that would leave the range; nothing else changes it.
AllAre(cmds, name) == cmds # <<>> /\ \A j \in 1..Len(cmds) : cmds[j] = name
Lowered(d, n) ==
  IF d - n * DURATION_STEP >= MIN_MOVE_DURATION THEN d - n * DURATION_STEP
  ELSE MIN_MOVE_DURATION
Raised(d, n) ==
  IF d + n * DURATION_STEP <= MOVE_DURATION THEN d + n * DURATION_STEP
  ELSE MOVE_DURATION
DirectiveTaken == dpc = "idle" /\ dpc' # "idle"
C37_DurationClamp ==
  /\ [](custom_move_duration \in MIN_MOVE_DURATION..MOVE_DURATION)
  /\ [][LET cmds == d_payload'.command
             d == custom_move_duration
         IN IF DirectiveTaken /\ AllAre(cmds, "set_move_duration_down")
              THEN custom_move_duration' = Lowered(d, Len(cmds))
            ELSE IF DirectiveTaken /\ AllAre(cmds, "set_move_duration_up")
              THEN custom_move_duration' = Raised(d, Len(cmds))
            ELSE custom_move_duration' = d]_vars
\* the duration is at the lower bound and a single set_move_duration_down has
\* just been applied to it
C37_Witness ==
  /\ custom_move_duration = MIN_MOVE_DURATION /\ n_dir = 3
  /\ dpc = "parse" /\ d_payload = DurationDown1

\* C38: whenever the worker is about to start a linear timed move (_do_op is
\* at the dispatch and will read custom_move_speed), safe mode is on exactly
\* when the speed is the reduced one, and off exactly when it is the default.
ReadsSpeed ==
  /\ InOp /\ Top.fn = "do_op" /\ Top.op \in LinearMoveOps
  /\ \/ Top.pc = "entry" /\ ~NeedsAutoStand(Top.op)
     \/ Top.pc = "after_stand" /\ ret.ok
C38_SafeModeSpeed ==
  ReadsSpeed =>
    /\ safe_mode <=> custom_move_speed = SAFE_SPEED
    /\ ~safe_mode <=> custom_move_speed = LIN_SPEED

\* C39: the sequence id changes only on the worker's step from idle to running,
\* by exactly one; no step of a handler, of the cleanup or of shutdown changes
\* it; the ids of the published runs are strictly increasing; and from the
\* worker's copy of the id to the end of the cleanup the copy equals the id.
RunPcs == {"check", "op", "log", "brake", "pad", "cleanup", "reset"}
C39_SequenceId ==
  /\ [][seq_id' # seq_id =>
          /\ seq_id' = seq_id + 1
          /\ wpc = "idle" /\ wpc' = "started" /\ ~seq_running /\ seq_running'
          /\ ~HandlerStep /\ spc' = spc]_vars
  /\ [](\A i, j \in 1..Len(pub_log) : i < j => pub_log[i].seq_id < pub_log[j].seq_id)
  /\ [](wpc \in RunPcs => current_seq_id = seq_id)
\* the second run is at its cleanup after shutdown() has signalled it, with a
\* newer sequence pending
C39_Witness ==
  /\ wpc = "cleanup" /\ seq_id = 2 /\ current_seq_id = 2 /\ Len(pub_log) = 1
  /\ spc = "done" /\ interrupt_reason = <<"shutdown">> /\ pending # <<>>

\* C40: _do_op returns for every operation name and posture: the expansion of
\* a catalog macro holds recognized primitives only (no macro name), so that a
\* macro frame is the outermost one; at most one frame has taken the posture
\* guard, and the frame it called is _do_op("stand"), which never takes the
\* guard itself; and the call stack is never deeper than three frames.
CatalogFlat ==
  \A m \in MacroNames :
    /\ CUSTOM_OPERATION_LIST(m) # <<>>
    /\ \A j \in 1..Len(CUSTOM_OPERATION_LIST(m)) :
         /\ CUSTOM_OPERATION_LIST(m)[j] \notin MacroNames
         /\ CUSTOM_OPERATION_LIST(m)[j] \in Primitives
GuardOnce ==
  /\ Cardinality({i \in 1..Len(stk) : stk[i].pc = "after_stand"}) <= 1
  /\ \A i \in 1..Len(stk) :
       /\ stk[i].pc = "after_stand" /\ i > 1 =>
            stk[i - 1].op = "stand" /\ stk[i - 1].pc # "after_stand"
       /\ stk[i].pc = "macro" => i = Len(stk)
C40_DoOpTerminates ==
  /\ [](CatalogFlat /\ GuardOnce /\ Len(stk) <= 3)
  /\ <>(stk = <<>> /\ wpc = "log")
\* the macro from0to1, entered sitting, has returned success after its implicit
\* stand and its three timed moves
C40_Witness ==
  /\ wpc = "log" /\ stk = <<>> /\ current_sequence_list = <<"from0to1">>
  /\ op_sat /\ ret.ok /\ ~is_sitting /\ Len(sdk_log) > 3
====
